---------------------------- MODULE Spec2Model ----------------------------
(***************************************************************************)
(* The two form inputs of archers-ui-library, InputArea (a textarea) and   *)
(* InputField (an input), as a state machine of React renders: an event    *)
(* handler runs against the committed render and its state updates are     *)
(* batched into the next render; the passive effects of that render run    *)
(* afterwards, in declaration order, and may cause one more render.        *)
(* Strings are sequences of one-character strings.                         *)
(***************************************************************************)
EXTENDS Naturals, Sequences, FiniteSets, TLC

(* ------------------------------ bounds -------------------------------- *)

\* Longest string enumerated over Alphabet.
MaxLen == 2

\* Largest numeric value a caller passes as the value prop.
MaxNum == 10

\* Characters the enumerated strings are built from: a letter, a blank, and a
\* character that only the e-mail pattern accepts.
Alphabet == {"a", " ", "@"}

(* --------------------------- characters ------------------------------- *)

LowerChars ==
    {"a","b","c","d","e","f","g","h","i","j","k","l","m",
     "n","o","p","q","r","s","t","u","v","w","x","y","z"}

UpperChars ==
    {"A","B","C","D","E","F","G","H","I","J","K","L","M",
     "N","O","P","Q","R","S","T","U","V","W","X","Y","Z"}

DigitChars == {"0","1","2","3","4","5","6","7","8","9"}

\* \s of a regular expression, and what String.prototype.trim strips.
SpaceChars == {" ", "\n", "\t", "\r"}

\* [!@#$%^&*()_+] of passwordRegex.
PasswordSymbols == {"!","@","#","$","%","^","&","*","(",")","_","+"}

AllOf(s, class) == \A i \in 1..Len(s) : s[i] \in class

SomeOf(s, class) == \E i \in 1..Len(s) : s[i] \in class

(* ----------------------- String.prototype.trim ------------------------ *)

RECURSIVE TrimStart(_)
TrimStart(s) ==
    IF s # <<>> /\ Head(s) \in SpaceChars THEN TrimStart(Tail(s)) ELSE s

RECURSIVE TrimEnd(_)
TrimEnd(s) ==
    IF s # <<>> /\ s[Len(s)] \in SpaceChars
    THEN TrimEnd(SubSeq(s, 1, Len(s) - 1))
    ELSE s

Trim(s) == TrimEnd(TrimStart(s))

(* ------------------------ regular expressions ------------------------- *)

\* /^[a-zA-Z]+$/
alphabetsRegex(s) == Len(s) >= 1 /\ AllOf(s, LowerChars \cup UpperChars)

\* /^[a-zA-Z0-9#\-_ ]+$/
resourceNameRegex(s) ==
    /\ Len(s) >= 1
    /\ AllOf(s, LowerChars \cup UpperChars \cup DigitChars \cup {"#", "-", "_", " "})

\* /^[a-zA-Z0-9#\-_., ]+$/
resourceDescriptionRegex(s) ==
    /\ Len(s) >= 1
    /\ AllOf(s, LowerChars \cup UpperChars \cup DigitChars
                    \cup {"#", "-", "_", ".", ",", " "})

\* [^\s@] of emailRegex.
EmailAtom(c) == c \notin SpaceChars /\ c # "@"

\* /^[^\s@]+@[^\s@]+\.[^\s@]+$/ : some "@" at i and some "." at j split the
\* string into three non-empty runs of [^\s@].
emailRegex(s) ==
    \E i \in 1..Len(s) : \E j \in 1..Len(s) :
        /\ 1 < i /\ i + 1 < j /\ j < Len(s)
        /\ s[i] = "@" /\ s[j] = "."
        /\ \A k \in 1..Len(s) : k \notin {i, j} => EmailAtom(s[k])

\* The {10,} of passwordRegex.
PasswordMinLength == 10

\* /^(?=.*[a-z])(?=.*[A-Z])(?=.*\d)(?=.*[!@#$%^&*()_+])[a-zA-Z\d!@#$%^&*()_+]{10,}$/
\* The consumed class holds no line break, so each lookahead's .* reaches
\* every position of a string that the class accepts.
passwordRegex(s) ==
    /\ Len(s) >= PasswordMinLength
    /\ AllOf(s, LowerChars \cup UpperChars \cup DigitChars \cup PasswordSymbols)
    /\ SomeOf(s, LowerChars)
    /\ SomeOf(s, UpperChars)
    /\ SomeOf(s, DigitChars)
    /\ SomeOf(s, PasswordSymbols)

\* /^[+-]?\d+(\.\d+)?$/ of the input's onChange.
numberPattern(s) ==
    LET body == IF s # <<>> /\ Head(s) \in {"+", "-"} THEN Tail(s) ELSE s
        Digits(t) == Len(t) >= 1 /\ AllOf(t, DigitChars)
    IN  \/ Digits(body)
        \/ \E j \in 1..Len(body) :
              /\ body[j] = "."
              /\ Digits(SubSeq(body, 1, j - 1))
              /\ Digits(SubSeq(body, j + 1, Len(body)))

(* ------------------------------ values -------------------------------- *)

\* The value prop: a string, a number, or undefined.
Str(s) == [kind |-> "string", chars |-> s, num |-> 0]

Num(n) == [kind |-> "number", chars |-> <<>>, num |-> n]

Undefined == [kind |-> "undefined", chars |-> <<>>, num |-> 0]

\* Number.prototype.toString of a non-negative integer.
RECURSIVE NumberToString(_)
NumberToString(n) ==
    LET digit(d) == CHOOSE c \in DigitChars :
            c = <<"0","1","2","3","4","5","6","7","8","9">>[d + 1]
    IN  IF n < 10 THEN <<digit(n)>>
        ELSE NumberToString(n \div 10) \o <<digit(n % 10)>>

\* value?.toString() ; the empty sequence stands for the undefined result,
\* which every use in the source treats as the empty string does
\* (!undefined, undefined?.trim(), undefined || 0).
StringOf(v) ==
    CASE v.kind = "string" -> v.chars
      [] v.kind = "number" -> NumberToString(v.num)
      [] OTHER -> <<>>

\* value?.toString().length || 0
LengthOf(v) == Len(StringOf(v))

RECURSIVE StringsUpTo(_)
StringsUpTo(n) ==
    IF n = 0 THEN {<<>>}
    ELSE LET shorter == StringsUpTo(n - 1)
         IN  shorter \cup {Append(s, c) : s \in {t \in shorter : Len(t) = n - 1},
                                          c \in Alphabet}

\* A line break alone and after a letter, a full stop (which the description
\* pattern accepts and the resource name pattern does not), and the examples
\* of the documentation: e-mail addresses and passwords.
Examples ==
    { <<"\n">>,
      <<"a","\n">>,
      <<".">>,
      <<"a","@","b">>,
      <<"a","@","b",".","c","o","m">>,
      <<"a","b","c","d","e","f","g","h","1">>,
      <<"A","b","c","d","e","f","g","1","!","@">> }

\* What a content change can carry (e.target.value is always a string).
Contents == StringsUpTo(MaxLen) \cup Examples

\* What the caller can pass as value.
FieldValues == {Str(s) : s \in Contents} \cup {Num(0), Num(MaxNum)} \cup {Undefined}

AreaValues == {Str(s) : s \in Contents}

(* ------------------------------ rules --------------------------------- *)

FieldTypes ==
    {"alphabets", "resource_name", "email", "password", "passwordVisible",
     "file", "number"}

AreaTypes == {"description"}

\* The keys of InputField's validationRules that a type can select.
FieldRuleTypes ==
    {"alphabets", "resource_name", "email", "passwordVisible", "password"}

\* validationRules[type].regex.test(s) of InputField.
FieldRuleTest(t, s) ==
    CASE t = "alphabets" -> alphabetsRegex(s)
      [] t = "resource_name" -> resourceNameRegex(s)
      [] t = "email" -> emailRegex(s)
      [] t \in {"passwordVisible", "password"} -> passwordRegex(s)

\* validationRules[type].message of InputField.
FieldRuleMessage(t) ==
    CASE t = "alphabets" -> "Only Alphabets allowed!"
      [] t = "resource_name" -> "Only Alphabets, numbers and (#, _, -) allowed!"
      [] t = "email" -> "Invalid email format."
      [] t \in {"passwordVisible", "password"} ->
           "Must be at least 10 characters long. Include at least one lowercase letter, one uppercase letter, one number, and one special character (!@#$%^&*()_+)."

AreaRuleMessage == "Only Alphabets, numbers, and (#, _, -, .) allowed!"

Valid == [isValid |-> TRUE, errorMessage |-> ""]

Invalid(message) == [isValid |-> FALSE, errorMessage |-> message]

(* ------------------------------- state -------------------------------- *)

VARIABLES
    component,          \* "InputArea" or "InputField"
    type, label, required, usedFor, value, errorObject,      \* props
    onValidationChange, \* whether the caller supplied the notifier
    handleFocusOut,     \* whether the caller supplied the focus-out notifier
    isValid, errorMessage, characterCount,                   \* useState
    event,              \* the event being processed, "none" when idle
    pending,            \* effects of the committed render still to run
    typed,              \* e.target.value of the change being processed
    ran,                \* validateInput ran in the event being processed
    passed,             \* what that run handed to onValidationChange
    delivered,          \* onValidationChange calls of the event's handler
    lastDelivered,      \* the last argument onValidationChange received
    changeCalls,        \* onChange calls of the event's handler
    focusOutCalls,      \* handleFocusOut calls of the event's handler
    origin              \* where isValid and errorMessage come from

props == <<component, type, label, required, usedFor, onValidationChange,
           handleFocusOut>>

observed == <<typed, ran, passed, delivered, changeCalls, focusOutCalls>>

vars == <<props, value, errorObject, isValid, errorMessage, characterCount,
          event, pending, observed, lastDelivered, origin>>

Labels == {"", "Email"}

NoErrorObject == [given |-> FALSE, error |-> FALSE, message |-> ""]

ErrorObjects ==
    {NoErrorObject}
      \cup {[given |-> TRUE, error |-> FALSE, message |-> ""]}
      \cup {[given |-> TRUE, error |-> TRUE, message |-> m] :
                m \in {"", "Taken", "Too long"}}

\* errorObject?.error, the dependency of the override effect.
ErrorDep(e) == IF ~e.given THEN "undefined" ELSE IF e.error THEN "true" ELSE "false"

Idle == event = "none"

(* ---------------------------- validateInput --------------------------- *)

\* Mutant: validateInput of InputArea with the pattern check left out.
AreaValidateRequiredOnly(v) ==
    IF Trim(v) = <<>> /\ required THEN Invalid("Field is required.") ELSE Valid

\* InputArea's validateInput(v): the state it sets and the value it returns.
AreaValidate(v) ==
    IF Trim(v) = <<>> /\ required THEN Invalid("Field is required.")
    ELSE IF Trim(v) # <<>> /\ type \in AreaTypes /\ ~resourceDescriptionRegex(v)
         THEN Invalid(AreaRuleMessage)
         ELSE Valid

\* Mutant: the pattern branch sets isValid and forgets setErrorMessage.
FieldValidateNoMessage(v) ==
    IF Trim(StringOf(v)) = <<>> /\ required THEN Invalid(label \o " is required.")
    ELSE IF /\ type \in FieldRuleTypes
            /\ LengthOf(v) # 0
            /\ ~FieldRuleTest(type, StringOf(v))
         THEN [isValid |-> FALSE, errorMessage |-> errorMessage]
         ELSE Valid

\* Mutant: the required check tests the length of the value, not its trimmed
\* form.
FieldValidateNoTrim(v) ==
    IF LengthOf(v) = 0 /\ required THEN Invalid(label \o " is required.")
    ELSE IF /\ type \in FieldRuleTypes
            /\ LengthOf(v) # 0
            /\ ~FieldRuleTest(type, StringOf(v))
         THEN Invalid(FieldRuleMessage(type))
         ELSE Valid

\* Mutant: the valid branch sets isValid and forgets to clear the message.
FieldValidateKeepsMessage(v) ==
    IF Trim(StringOf(v)) = <<>> /\ required THEN Invalid(label \o " is required.")
    ELSE IF /\ type \in FieldRuleTypes
            /\ LengthOf(v) # 0
            /\ ~FieldRuleTest(type, StringOf(v))
         THEN Invalid(FieldRuleMessage(type))
         ELSE [isValid |-> TRUE, errorMessage |-> errorMessage]

\* InputField's validateInput(): the state it sets, from the value prop of the
\* render the handler belongs to.
FieldValidate(v) ==
    IF Trim(StringOf(v)) = <<>> /\ required THEN Invalid(label \o " is required.")
    ELSE IF /\ type \in FieldRuleTypes
            /\ LengthOf(v) # 0
            /\ ~FieldRuleTest(type, StringOf(v))
         THEN Invalid(FieldRuleMessage(type))
         ELSE Valid

\* What InputField's validateInput hands to onValidationChange: isValid of the
\* render the handler closed over, not the validity just computed.
FieldPassed(computed) == isValid

\* What InputArea's validateInput hands to onValidationChange.
AreaPassed(computed) == computed

(* ------------------------------ renders ------------------------------- *)

\* useState: the state of the first render, before any effect has run.
Init ==
    /\ component \in {"InputArea", "InputField"}
    /\ required \in BOOLEAN
    /\ label \in (IF required /\ component = "InputField" THEN Labels ELSE {"Email"})
    /\ onValidationChange \in BOOLEAN
    /\ IF component = "InputArea"
       THEN /\ type \in AreaTypes
            /\ value \in AreaValues
            /\ usedFor = "undefined"
            /\ handleFocusOut = FALSE
            /\ errorObject = NoErrorObject
       ELSE /\ type \in FieldTypes
            /\ value \in FieldValues
            /\ usedFor \in {"undefined", "range"}
            /\ handleFocusOut \in (IF usedFor = "range" THEN BOOLEAN ELSE {TRUE})
            /\ errorObject \in ErrorObjects
    /\ isValid = TRUE
    /\ errorMessage = ""
    /\ characterCount = LengthOf(value)
    /\ event = "mount"
    /\ pending = IF component = "InputArea" THEN {"notify", "count"}
                 ELSE {"errorObject", "notify", "count"}
    /\ typed = <<>>
    /\ ran = FALSE
    /\ passed = <<>>
    /\ delivered = <<>>
    /\ lastDelivered = <<>>
    /\ changeCalls = 0
    /\ focusOutCalls = 0
    /\ origin = "initial"

\* Mutant: the notification effect does not depend on isValid.
EffectsDueNoValidDep(newValue, newValid, newError, newNotifier) ==
    {e \in {"errorObject"} : component = "InputField"
                                 /\ ErrorDep(newError) # ErrorDep(errorObject)}
      \cup {e \in {"notify"} : newNotifier}
      \cup {e \in {"count"} : newValue # value}

\* The effects whose dependencies differ between the committed render and the
\* next one: [errorObject?.error], [isValid] (InputArea: [isValid,
\* onValidationChange], newNotifier telling whether the parent handed over a
\* new function), [value].
EffectsDue(newValue, newValid, newError, newNotifier) ==
    {e \in {"errorObject"} : component = "InputField"
                                 /\ ErrorDep(newError) # ErrorDep(errorObject)}
      \cup {e \in {"notify"} : newValid # isValid \/ newNotifier}
      \cup {e \in {"count"} : newValue # value}

\* A parent that re-renders may hand InputArea a new onValidationChange.
NewNotifiers == IF component = "InputArea" /\ onValidationChange THEN BOOLEAN ELSE {FALSE}

\* The caller's handleChange: setValue(e.target.value).
handleChange(v) == Str(v)

\* Mutant: validate, then forward, whatever the outcome.
AreaChangeCallsUngated(v, ok) == 1

\* onChange calls of InputArea's textarea onChange.
AreaChangeCalls(v, ok) == (IF Len(v) = 0 THEN 1 ELSE 0) + (IF ok THEN 1 ELSE 0)

\* onChange calls of InputField's input onChange: both branches call it once.
FieldChangeCalls(v) == IF type = "number" /\ numberPattern(v) THEN 1 ELSE 1

\* Mutant: handleBlur ignores usedFor.
BlurAlwaysValidates == TRUE

\* handleBlur of InputField validates unless the field is part of a range.
BlurValidates == component = "InputArea" \/ usedFor # "range"

Calls(supplied, arg) == IF supplied THEN <<arg>> ELSE <<>>

(* ------------------------------- events ------------------------------- *)

\* InputArea: the textarea's onChange with e.target.value = v.
AreaChange(v) ==
    /\ Idle /\ component = "InputArea" /\ Str(v) # value
    /\ LET r == AreaValidate(v)
           calls == AreaChangeCalls(v, r.isValid)
           newValue == IF calls > 0 THEN handleChange(v) ELSE value
           said == Calls(onValidationChange, AreaPassed(r.isValid))
       IN  /\ \E n \in NewNotifiers :
                 pending' = EffectsDue(newValue, r.isValid, errorObject, n)
           /\ value' = newValue
           /\ isValid' = r.isValid
           /\ errorMessage' = r.errorMessage
           /\ changeCalls' = calls
           /\ passed' = said
           /\ delivered' = said
           /\ lastDelivered' = IF said # <<>> THEN said ELSE lastDelivered
           /\ origin' = IF newValue = Str(v) THEN "validated" ELSE "stale"
    /\ event' = "change"
    /\ typed' = v
    /\ ran' = TRUE
    /\ UNCHANGED <<props, errorObject, characterCount, focusOutCalls>>

\* InputField: the input's onChange with e.target.value = v.
FieldChange(v) ==
    /\ Idle /\ component = "InputField" /\ Str(v) # value
    /\ value' = handleChange(v)
    /\ changeCalls' = FieldChangeCalls(v)
    /\ pending' = EffectsDue(handleChange(v), isValid, errorObject, FALSE)
    /\ event' = "change"
    /\ typed' = v
    /\ origin' = IF origin = "validated" THEN "stale" ELSE origin
    /\ UNCHANGED <<props, errorObject, isValid, errorMessage, characterCount,
                   ran, passed, delivered, lastDelivered, focusOutCalls>>

\* handleBlur of either component.
Blur ==
    /\ Idle
    /\ event' = "blur"
    /\ IF BlurValidates
       THEN LET r == IF component = "InputArea"
                     THEN AreaValidate(StringOf(value))
                     ELSE FieldValidate(value)
                said == Calls(onValidationChange,
                              IF component = "InputArea"
                              THEN AreaPassed(r.isValid)
                              ELSE FieldPassed(r.isValid))
            IN  /\ isValid' = r.isValid
                /\ errorMessage' = r.errorMessage
                /\ \E n \in NewNotifiers :
                      pending' = EffectsDue(value, r.isValid, errorObject, n)
                /\ ran' = TRUE
                /\ passed' = said
                /\ delivered' = said
                /\ lastDelivered' = IF said # <<>> THEN said ELSE lastDelivered
                /\ origin' = "validated"
                /\ focusOutCalls' = 0
       ELSE /\ focusOutCalls' = IF handleFocusOut THEN 1 ELSE 0
            /\ pending' = {}
            /\ UNCHANGED <<isValid, errorMessage, ran, passed, delivered,
                           lastDelivered, origin>>
    /\ UNCHANGED <<props, value, errorObject, characterCount, typed, changeCalls>>

\* The caller renders InputField with another errorObject.
SetErrorObject(e) ==
    /\ Idle /\ component = "InputField" /\ e # errorObject
    /\ errorObject' = e
    /\ pending' = EffectsDue(value, isValid, e, FALSE)
    /\ event' = "errorObject"
    /\ UNCHANGED <<props, value, isValid, errorMessage, characterCount,
                   observed, lastDelivered, origin>>

\* The caller renders the component with another value.
SetValue(x) ==
    /\ Idle /\ x # value
    /\ component = "InputArea" => x \in AreaValues
    /\ value' = x
    /\ \E n \in NewNotifiers : pending' = EffectsDue(x, isValid, errorObject, n)
    /\ event' = "value"
    /\ origin' = IF origin = "validated" THEN "stale" ELSE origin
    /\ UNCHANGED <<props, errorObject, isValid, errorMessage, characterCount,
                   observed, lastDelivered>>

(* ------------------------------ effects ------------------------------- *)

\* The override effect: errorObject?.error set forces the invalid state.
OverrideApplies == "errorObject" \in pending /\ errorObject.given /\ errorObject.error

\* The notification effect: onValidationChange(isValid) of the committed render.
NotifyRuns == "notify" \in pending /\ onValidationChange

\* Mutant: the character count keeps its initial value.
CountNotUpdated == characterCount

\* The character count effect.
CountAfterEffects == IF "count" \in pending THEN LengthOf(value) ELSE characterCount

\* The pending effects of the committed render run in declaration order; the
\* state they set is rendered next, and the event is over once a render
\* leaves nothing to do.
FlushEffects ==
    /\ ~Idle
    /\ LET newValid == IF OverrideApplies THEN FALSE ELSE isValid
           newMessage == IF OverrideApplies THEN errorObject.message ELSE errorMessage
           newCount == CountAfterEffects
           rerender == \/ newValid # isValid
                       \/ newMessage # errorMessage
                       \/ newCount # characterCount
       IN  /\ isValid' = newValid
           /\ errorMessage' = newMessage
           /\ characterCount' = newCount
           /\ origin' = IF OverrideApplies THEN "override" ELSE origin
           /\ lastDelivered' = IF NotifyRuns THEN <<isValid>> ELSE lastDelivered
           /\ pending' = EffectsDue(value, newValid, errorObject, FALSE)
           /\ IF rerender
              THEN /\ event' = event
                   /\ UNCHANGED observed
              ELSE /\ event' = "none"
                   /\ typed' = <<>>
                   /\ ran' = FALSE
                   /\ passed' = <<>>
                   /\ delivered' = <<>>
                   /\ changeCalls' = 0
                   /\ focusOutCalls' = 0
    /\ UNCHANGED <<props, value, errorObject>>

Next ==
    \/ \E v \in Contents : AreaChange(v)
    \/ \E v \in Contents : FieldChange(v)
    \/ Blur
    \/ \E e \in ErrorObjects : SetErrorObject(e)
    \/ \E x \in FieldValues : SetValue(x)
    \/ FlushEffects

Spec == Init /\ [][Next]_vars

TypeOK ==
    /\ isValid \in BOOLEAN
    /\ characterCount \in Nat
    /\ pending \subseteq {"errorObject", "notify", "count"}
    /\ event \in {"none", "mount", "change", "blur", "errorObject", "value"}
    /\ origin \in {"initial", "validated", "stale", "override"}
    /\ changeCalls \in 0..2
    /\ focusOutCalls \in 0..1

(* ------------------------- reading the claims ------------------------- *)

\* A string whose trimmed form is empty.
Blank(s) == \A i \in 1..Len(s) : s[i] \in SpaceChars

\* The content that the validation run of the event being processed examined.
Examined == IF event = "change" THEN typed ELSE StringOf(value)

HasRule == component = "InputArea" \/ type \in FieldRuleTypes

\* Whether s matches the pattern of the component's kind.
Matches(s) ==
    IF component = "InputArea" THEN resourceDescriptionRegex(s)
    ELSE FieldRuleTest(type, s)

RuleMessage == IF component = "InputArea" THEN AreaRuleMessage ELSE FieldRuleMessage(type)

RequiredMessage ==
    IF component = "InputArea" THEN "Field is required." ELSE label \o " is required."

InValidState == isValid /\ errorMessage = ""

Flagged == errorObject.given /\ errorObject.error

\* Whether the current value passes the required check and its kind's rule.
ValueOk ==
    /\ ~(required /\ Blank(StringOf(value)))
    /\ HasRule /\ StringOf(value) # <<>> => Matches(StringOf(value))

(* C1: errorMessage is non-empty if and only if isValid is false, in every   *)
(* reachable state, whatever message the external error object carries.      *)
C1_MessageIffInvalid == (errorMessage # "") <=> ~isValid

(* C1, amended: a non-empty errorMessage implies isValid is false, and an    *)
(* invalid state has a non-empty errorMessage unless it was entered through  *)
(* the external error override of InputField (with an empty message).        *)
C1_MessageIffInvalidButEmptyOverride ==
    /\ errorMessage # "" => ~isValid
    /\ ~isValid /\ errorMessage = "" => component = "InputField" /\ origin = "override"

C1_Witness == ~isValid /\ origin = "override" /\ errorMessage = "Taken"

(* C2: a content change of InputArea carrying v calls onChange when v is     *)
(* empty, does not call it (and leaves the caller's value alone) when v is   *)
(* non-empty and fails validation, and calls it when v passes validation.    *)
C2_ChangePropagation ==
    [][ Idle /\ event' = "change" /\ component = "InputArea" =>
          /\ Len(typed') = 0 => changeCalls' >= 1 /\ value' = Str(typed')
          /\ Len(typed') > 0 /\ ~isValid' => changeCalls' = 0 /\ value' = value
          /\ Len(typed') > 0 /\ isValid' => changeCalls' >= 1 /\ value' = Str(typed')
          /\ isValid' <=> /\ ~(required /\ Blank(typed'))
                          /\ Blank(typed') \/ resourceDescriptionRegex(typed') ]_vars

C2_Witness ==
    /\ component = "InputArea" /\ event = "change"
    /\ typed = <<"a", "@">> /\ changeCalls = 0 /\ value = Str(<<"a">>)

(* C3: characterCount equals the length of the string form of the value in   *)
(* every state a render can observe.                                         *)
C3_CountIsLength == characterCount = Len(StringOf(value))

(* C3, amended: characterCount equals the length of the string form of the   *)
(* value in every render whose character count effect has run; the render    *)
(* committed with a new value shows the count of the previous value.         *)
C3_CountIsLengthAfterEffect == "count" \notin pending => characterCount = Len(StringOf(value))

C3_Witness ==
    /\ component = "InputArea" /\ event = "change" /\ changeCalls = 0
    /\ "count" \notin pending /\ characterCount = 2

(* C4: once InputField has reacted to a change of the external error object  *)
(* to one whose flag is set, isValid is false and errorMessage is the        *)
(* message of that object.                                                   *)
C4_OverrideAdoptsMessage ==
    [][ event = "errorObject" /\ event' = "none" /\ Flagged =>
          ~isValid' /\ errorMessage' = errorObject.message ]_vars

(* C5: a validation run on a value whose trimmed form is empty, with         *)
(* required set, yields isValid = false and the required message, whatever   *)
(* the kind.                                                                 *)
C5_RequiredFirst ==
    ran /\ required /\ Blank(Examined) => ~isValid /\ errorMessage = RequiredMessage

C5_Witness ==
    /\ component = "InputField" /\ ran /\ required /\ type = "resource_name"
    /\ value = Str(<<" ">>) /\ errorMessage = "Email is required."

(* C6: when the required check does not fire, a validation run yields the    *)
(* valid state for a value that matches the kind's pattern, the kind's       *)
(* message for a non-empty value that does not (whitespace and line breaks   *)
(* included), and the valid state for kinds without a rule.                  *)
C6_RuleOutcome ==
    ran /\ ~(required /\ Blank(Examined)) =>
        IF HasRule
        THEN /\ Matches(Examined) => InValidState
             /\ Examined # <<>> /\ ~Matches(Examined) =>
                    ~isValid /\ errorMessage = RuleMessage
        ELSE InValidState

(* C6, amended: as C6, but InputArea applies its rule only to a value whose  *)
(* trimmed form is non-empty: there a value made only of whitespace (a lone  *)
(* line break included) is valid when the required check does not fire.      *)
C6_RuleOutcomeTrimmedInArea ==
    ran /\ ~(required /\ Blank(Examined)) =>
        IF HasRule
        THEN /\ Matches(Examined) => InValidState
             /\ component = "InputArea" /\ Blank(Examined) => InValidState
             /\ /\ Examined # <<>>
                /\ ~Matches(Examined)
                /\ ~(component = "InputArea" /\ Blank(Examined))
                => ~isValid /\ errorMessage = RuleMessage
        ELSE InValidState

C6_Witness ==
    /\ component = "InputArea" /\ ran /\ ~required
    /\ Examined = <<"\n">> /\ InValidState

C8_NotifierFollowsValidity ==
    /\ [](onValidationChange /\ Idle => lastDelivered = <<isValid>>)
    /\ [][ onValidationChange /\ lastDelivered = <<>> => lastDelivered' = <<TRUE>> ]_vars

C8_Witness ==
    /\ component = "InputField" /\ onValidationChange /\ Idle
    /\ origin = "validated" /\ lastDelivered = <<FALSE>>

(* C9: a focus-loss of InputField in range mode leaves isValid and           *)
(* errorMessage alone, calls no validation notifier and calls                *)
(* handleFocusOut once if supplied; outside range mode it runs validation    *)
(* and never calls handleFocusOut.                                           *)
C9_RangeBlur ==
    [][ Idle /\ event' = "blur" /\ component = "InputField" =>
          IF usedFor = "range"
          THEN /\ isValid' = isValid /\ errorMessage' = errorMessage
               /\ ~ran' /\ delivered' = <<>> /\ "notify" \notin pending'
               /\ lastDelivered' = lastDelivered
               /\ focusOutCalls' = (IF handleFocusOut THEN 1 ELSE 0)
          ELSE /\ ran' /\ focusOutCalls' = 0 ]_vars

C9_Witness ==
    /\ component = "InputField" /\ event = "blur" /\ usedFor = "range"
    /\ focusOutCalls = 1 /\ ~isValid /\ ~ValueOk

(* C10: what a validation run hands to onValidationChange is the validity    *)
(* that this run computed.                                                   *)
C10_PassedIsComputed == ran /\ passed # <<>> => passed = <<isValid>>

=============================================================================
